---- MODULE Spec2Model ----
(***************************************************************************)
(* Model of the postul server: the AI service (services/ai_service.py),    *)
(* the identity dependencies (dependencies.py) and the idea and project    *)
(* routers (routers/ideas.py, routers/projects.py).                        *)
(*                                                                         *)
(* Python strings are sequences of one-character strings.  Python values   *)
(* whose type matters (None, dict, pydantic model, str, list) are records  *)
(* tagged with a "type" field.  Real-valued scores are the integers 0..10  *)
(* (5 stands for 5.0).                                                     *)
(***************************************************************************)
EXTENDS Integers, Sequences, FiniteSets, TLC

VARIABLES
    op,         \* the service operation or route that ran last
    args,       \* its arguments
    provider,   \* what the text-generation provider did on that call
    sent,       \* the messages handed to the provider on that call
    requests,   \* how many requests that call issued to the provider
    result,     \* what the operation handed back: a return value or a raised exception
    request,    \* the HTTP request of the last route: who sent it and with what
    http,       \* the HTTP answer of the last route
    projects,   \* rows of the projects table
    ideas,      \* rows of the ideas table
    self,       \* the fields of the one AIService instance
    calls,      \* the frames of the service calls running concurrently
    download    \* the run of scripts/download_supertonic_models.py

vars == <<op, args, provider, sent, requests, result, request, http, projects, ideas,
          self, calls, download>>

-----------------------------------------------------------------------------
(* Bounds of the model *)

MaxPad == 1         \* longest run of blanks put before and after a text
MaxHist == 2        \* longest conversation history
MaxCount == 5       \* largest requested number of survey posts
MaxProjects == 1    \* most rows of the projects table
MaxIdeas == 2       \* most rows of the ideas table
MaxCalls == 2       \* most service calls running at the same time

-----------------------------------------------------------------------------
(* Python string and list primitives *)

Min(S) == CHOOSE x \in S : \A y \in S : x <= y
Max(S) == CHOOSE x \in S : \A y \in S : x >= y

Rep(c, n) == [i \in 1..n |-> c]

Whitespace == {" ", "\t", "\n"}

\* s[:n] for any integer n (a negative n counts from the end)
SliceTo(s, n) ==
    IF n >= 0
    THEN SubSeq(s, 1, IF n < Len(s) THEN n ELSE Len(s))
    ELSE SubSeq(s, 1, IF Len(s) + n > 0 THEN Len(s) + n ELSE 0)

\* s.strip()
Strip(s) ==
    LET keep == {i \in 1..Len(s) : s[i] \notin Whitespace}
    IN  IF keep = {} THEN <<>> ELSE SubSeq(s, Min(keep), Max(keep))

\* a or b, on strings
StrOr(a, b) == IF Len(a) > 0 THEN a ELSE b

\* Python values
None == [type |-> "NoneType"]
Str(s) == [type |-> "str", v |-> s]
List(l) == [type |-> "list", v |-> l]
Dict(d) == [type |-> "dict", v |-> d]
Model(cls, d) == [type |-> cls, v |-> d]
Integer(n) == [type |-> "int", v |-> n]

\* the outcome of a call
Return(v) == [kind |-> "returned", value |-> v]
Raise(e) == [kind |-> "raised", value |-> [type |-> "exception", v |-> e]]
NoResult == [kind |-> "none", value |-> None]

-----------------------------------------------------------------------------
(* Literals of services/ai_service.py *)

NEW_PROJECT == <<"N","e","w"," ","P","r","o","j","e","c","t">>
NEW_PROJECT_DESCRIPTION == <<"A"," ","n","e","w"," ","p","r","o","j","e","c","t"," ","i","d","e","a",".">>
SUMMARY_PREFIX == <<"A","n","a","l","y","s","i","s"," ","f","o","r",":"," ">>
ELLIPSIS == <<".",".",".">>
FALLBACK_REPLY == <<"T","h","a","t","'","s"," ","a","n"," ","i","n","t","e","r","e","s","t","i","n","g"," ","t","h","o","u","g","h","t","!"," ","C","a","n"," ","y","o","u"," ","t","e","l","l"," ","m","e"," ","m","o","r","e"," ","a","b","o","u","t"," ","w","h","a","t"," ","p","r","o","b","l","e","m"," ","y","o","u","'","r","e"," ","t","r","y","i","n","g"," ","t","o"," ","s","o","l","v","e"," ","w","i","t","h"," ","t","h","i","s"," ","i","d","e","a","?">>

SummaryCut == 200
NameCut == 50
DescriptionCut == 500
PreviewCut == 100

-----------------------------------------------------------------------------
(* Inputs *)

BodyLens == {0, 1, 9, 10, 49, 50, 51, 100, 101, 200, 201, 500, 501}

\* idea texts: a run of blanks, a body, a run of blanks; and one long run of
\* blanks alone
Texts ==
    { Rep(" ", a) \o Rep("x", b) \o Rep(" ", c) :
        a \in 0..MaxPad, b \in BodyLens, c \in 0..MaxPad }
    \cup { Rep(" ", DescriptionCut + 1) }


FALLBACK_PROBLEM_STATEMENT == <<"U","n","a","b","l","e"," ","t","o"," ","g","e","n","e","r","a","t","e"," ","p","r","o","b","l","e","m"," ","s","t","a","t","e","m","e","n","t","."," ","P","l","e","a","s","e"," ","t","r","y"," ","a","g","a","i","n",".">>
UNAVAILABLE == <<"A","n","a","l","y","s","i","s"," ","t","e","m","p","o","r","a","r","i","l","y"," ","u","n","a","v","a","i","l","a","b","l","e">>
FALLBACK_ITEM_1 == <<"R","e","v","i","e","w"," ","a","n","d"," ","r","e","f","i","n","e"," ","y","o","u","r"," ","i","d","e","a"," ","s","t","a","t","e","m","e","n","t">>
FALLBACK_ITEM_2 == <<"T","r","y"," ","s","u","b","m","i","t","t","i","n","g"," ","y","o","u","r"," ","i","d","e","a"," ","a","g","a","i","n">>
FALLBACK_ITEM_3 == <<"C","o","n","s","i","d","e","r"," ","b","r","e","a","k","i","n","g"," ","d","o","w","n"," ","y","o","u","r"," ","i","d","e","a"," ","i","n","t","o"," ","s","m","a","l","l","e","r"," ","c","o","m","p","o","n","e","n","t","s">>

\* the fixed instruction texts, each kept as one token
ANALYSIS_SYSTEM == <<"[analysis system instruction]">>
ANALYSIS_PROMPT_HEAD == <<"[Analyze the following startup idea ... Idea: ]">>
ANALYSIS_PROMPT_TAIL == <<"[Provide a detailed analysis including ... feedback.]">>

-----------------------------------------------------------------------------
(* The provider and the SDK call client.responses.parse *)

\* schema.ExtendedIdeaAnalysis: the field constraints of the analysis schema
ExtendedIdeaAnalysis(o) ==
    /\ o.saturation_score >= 0 /\ o.saturation_score <= 10
    /\ o.juicy_score >= 0 /\ o.juicy_score <= 10
    /\ o.validation_priority \in {"High", "Medium", "Low"}
    /\ Len(o.sources) <= 4

Source(i) == [title |-> <<"t", i>>, url |-> <<"u", i>>]

BaseAnalysis ==
    [problem_statement |-> <<"p">>, summary |-> <<"s">>, strengths |-> <<"+">>,
     weaknesses |-> <<"-">>, opportunities |-> <<"o">>, threats |-> <<"!">>,
     actionable_items |-> << <<"a">>, <<"b">>, <<"c">> >>,
     validation_priority |-> "High", saturation_score |-> 7, juicy_score |-> 3,
     sources |-> << Source("1"), Source("2") >>]

\* the objects the model may emit for an analysis, conforming or not
AnalysisObjects ==
    {BaseAnalysis}
    \cup {[BaseAnalysis EXCEPT !.saturation_score = x] : x \in {-1, 0, 10, 11}}
    \cup {[BaseAnalysis EXCEPT !.juicy_score = x] : x \in {-1, 0, 10, 11}}
    \cup {[BaseAnalysis EXCEPT !.validation_priority = x] : x \in {"Medium", "Low", "Urgent"}}
    \cup {[BaseAnalysis EXCEPT !.sources = [i \in 1..n |-> Source("1")]] : n \in {0, 4, 5}}

\* what the provider does on one call: a transport error, output that is not
\* JSON, a refusal (no parsed content), or a JSON object
RawError(e) == [kind |-> "error", payload |-> [type |-> "exception", v |-> e]]
RawText == [kind |-> "text", payload |-> None]
RawRefusal == [kind |-> "refusal", payload |-> None]
RawObject(cls, o) == [kind |-> "object", payload |-> Model(cls, o)]

RawFailures == {RawError(e) : e \in {"network", "timeout"}} \cup {RawText}

AnalysisRaw ==
    RawFailures \cup {RawRefusal}
    \cup {RawObject("ExtendedIdeaAnalysis", o) : o \in AnalysisObjects}

\* client.responses.parse(..., text_format=cls): raises on a transport error,
\* on unparseable output and on an object the schema rejects; a refusal gives
\* a response whose output_parsed is None
responses_parse(raw, conforms) ==
    CASE raw.kind = "error" -> Raise(raw.payload.v)
      [] raw.kind = "text" -> Raise("unparseable")
      [] raw.kind = "refusal" -> Return([output_parsed |-> None])
      [] raw.kind = "object" ->
            IF conforms THEN Return([output_parsed |-> raw.payload])
            ELSE Raise("validation")

Message(role, content) == [role |-> role, content |-> content]

-----------------------------------------------------------------------------
(* AIService.analyze_idea *)

_build_analysis_prompt(transcribed_text) ==
    ANALYSIS_PROMPT_HEAD \o transcribed_text \o ANALYSIS_PROMPT_TAIL

\* the fallback with one actionable item lost and no neutral scores
_get_fallback_analysis_partial(transcribed_text) ==
    Model("ExtendedIdeaAnalysis",
        [problem_statement |-> FALLBACK_PROBLEM_STATEMENT,
         summary |-> SUMMARY_PREFIX \o SliceTo(transcribed_text, SummaryCut) \o ELLIPSIS,
         strengths |-> UNAVAILABLE,
         weaknesses |-> UNAVAILABLE,
         opportunities |-> UNAVAILABLE,
         threats |-> UNAVAILABLE,
         actionable_items |-> <<FALLBACK_ITEM_1, FALLBACK_ITEM_2>>,
         validation_priority |-> "Low",
         saturation_score |-> 0,
         juicy_score |-> 0,
         sources |-> <<>>])

\* the fallback with a summary that leaves the idea text out
_get_fallback_analysis_fixed(transcribed_text) ==
    Model("ExtendedIdeaAnalysis",
        [problem_statement |-> FALLBACK_PROBLEM_STATEMENT,
         summary |-> SUMMARY_PREFIX \o ELLIPSIS,
         strengths |-> UNAVAILABLE,
         weaknesses |-> UNAVAILABLE,
         opportunities |-> UNAVAILABLE,
         threats |-> UNAVAILABLE,
         actionable_items |-> <<FALLBACK_ITEM_1, FALLBACK_ITEM_2, FALLBACK_ITEM_3>>,
         validation_priority |-> "Medium",
         saturation_score |-> 5,
         juicy_score |-> 5,
         sources |-> <<>>])

_get_fallback_analysis(transcribed_text) ==
    Model("ExtendedIdeaAnalysis",
        [problem_statement |-> FALLBACK_PROBLEM_STATEMENT,
         summary |-> SUMMARY_PREFIX \o SliceTo(transcribed_text, SummaryCut) \o ELLIPSIS,
         strengths |-> UNAVAILABLE,
         weaknesses |-> UNAVAILABLE,
         opportunities |-> UNAVAILABLE,
         threats |-> UNAVAILABLE,
         actionable_items |-> <<FALLBACK_ITEM_1, FALLBACK_ITEM_2, FALLBACK_ITEM_3>>,
         validation_priority |-> "Medium",
         saturation_score |-> 5,
         juicy_score |-> 5,
         sources |-> <<>>])

analyze_idea_messages(transcribed_text) ==
    << Message("system", ANALYSIS_SYSTEM),
       Message("user", _build_analysis_prompt(transcribed_text)) >>

AnalysisConforms(raw) ==
    raw.kind = "object" => ExtendedIdeaAnalysis(raw.payload.v)

\* analyze_idea rejecting empty text before the provider is called
analyze_idea_checked(transcribed_text, raw) ==
    LET response == responses_parse(raw, AnalysisConforms(raw))
    IN  IF transcribed_text = <<>>
        THEN Raise("InvalidInput")
        ELSE IF response.kind = "raised"
        THEN Return(_get_fallback_analysis(transcribed_text))
        ELSE Return(response.value.output_parsed)

analyze_idea(transcribed_text, raw) ==
    LET response == responses_parse(raw, AnalysisConforms(raw))
    IN  IF response.kind = "raised"
        THEN Return(_get_fallback_analysis(transcribed_text))
        ELSE Return(response.value.output_parsed)

-----------------------------------------------------------------------------
(* AIService.tiki_taka_conversation *)

I_HAVE_AN_IDEA == <<"I"," ","h","a","v","e"," ","a","n"," ","i","d","e","a",":"," ">>
system_prompt == <<"[You are a thoughtful startup advisor ... not to analyze it for them.]">>

\* truth value of a Python value: None, "", [] and 0 are false
Truthy(x) ==
    CASE x.type = "NoneType" -> FALSE
      [] x.type \in {"str", "list"} -> Len(x.v) > 0
      [] x.type = "int" -> x.v # 0
      [] OTHER -> TRUE

\* d.get(key, default)
DictGet(d, key, default) == IF key \in DOMAIN d THEN d[key] ELSE default

\* the loop over conversation_history: one message per entry that is a dict
RECURSIVE HistoryMessages(_)
HistoryMessages(h) ==
    IF h = <<>> THEN <<>>
    ELSE LET msg == Head(h)
         IN  (IF msg.type = "dict"
              THEN << Message(DictGet(msg.v, "role", "user"),
                              DictGet(msg.v, "content", <<>>)) >>
              ELSE <<>>)
             \o HistoryMessages(Tail(h))

\* the context test without its history clause
InjectsContext_always(conversation_history, idea_context) ==
    Truthy(idea_context)

\* whether the idea context is added as a leading user turn
InjectsContext(conversation_history, idea_context) ==
    Truthy(idea_context) /\ ~Truthy(conversation_history)

\* an operation that appends the caller's turn to the list it was handed
caller_history_appended(transcribed_text, conversation_history, idea_context) ==
    IF conversation_history.type = "list"
    THEN List(Append(conversation_history.v,
                     Dict([role |-> "user", content |-> transcribed_text])))
    ELSE conversation_history

\* the object the caller passed as conversation_history, after the call: the
\* operation appends to its own list `messages` only, iterates over the
\* history, and its assignment conversation_history = [] binds the local name
caller_history_after(transcribed_text, conversation_history, idea_context) ==
    conversation_history

\* the messages with the history put newest turn first
tiki_taka_messages_newest_first(transcribed_text, conversation_history, idea_context) ==
    LET turns == IF Truthy(conversation_history)
                 THEN HistoryMessages(conversation_history.v)
                 ELSE <<>>
    IN  << Message("system", system_prompt) >>
        \o (IF InjectsContext(conversation_history, idea_context)
            THEN << Message("user", I_HAVE_AN_IDEA \o idea_context.v) >>
            ELSE <<>>)
        \o [i \in 1..Len(turns) |-> turns[Len(turns) + 1 - i]]
        \o << Message("user", transcribed_text) >>

tiki_taka_messages(transcribed_text, conversation_history, idea_context) ==
    << Message("system", system_prompt) >>
    \o (IF InjectsContext(conversation_history, idea_context)
        THEN << Message("user", I_HAVE_AN_IDEA \o idea_context.v) >>
        ELSE <<>>)
    \o (IF Truthy(conversation_history)
        THEN HistoryMessages(conversation_history.v)
        ELSE <<>>)
    \o << Message("user", transcribed_text) >>

\* client.chat.completions.create followed by
\* response.choices[0].message.content.strip()
ChatRaw(content) == [kind |-> "chat", payload |-> content]
ChatNoChoices == [kind |-> "nochoices", payload |-> None]

chat_reply(raw) ==
    CASE raw.kind = "error" -> Raise(raw.payload.v)
      [] raw.kind = "text" -> Raise("unparseable")
      [] raw.kind = "nochoices" -> Raise("IndexError")
      [] raw.kind = "chat" ->
            IF raw.payload.type = "str"
            THEN Return(Str(Strip(raw.payload.v)))
            ELSE Raise("AttributeError")

\* tiki_taka_conversation without the except clause
tiki_taka_conversation_uncaught(transcribed_text, conversation_history, idea_context, raw) ==
    chat_reply(raw)

\* tiki_taka_conversation answering a failure with an empty reply
tiki_taka_conversation_silent(transcribed_text, conversation_history, idea_context, raw) ==
    LET advisor_message == chat_reply(raw)
    IN  IF advisor_message.kind = "raised"
        THEN Return(Str(<<>>))
        ELSE advisor_message

\* tiki_taka_conversation answering a failure with a question that quotes
\* the caller's text
tiki_taka_conversation_echo(transcribed_text, conversation_history, idea_context, raw) ==
    LET advisor_message == chat_reply(raw)
    IN  IF advisor_message.kind = "raised"
        THEN Return(Str(FALLBACK_REPLY \o transcribed_text))
        ELSE advisor_message

tiki_taka_conversation(transcribed_text, conversation_history, idea_context, raw) ==
    LET advisor_message == chat_reply(raw)
    IN  IF advisor_message.kind = "raised"
        THEN Return(Str(FALLBACK_REPLY))
        ELSE advisor_message

\* the conversation operation of the external interface: the reply and the
\* history with the caller's turn and the advisor's turn appended
respond(transcribed_text, history, idea_context, raw) ==
    LET reply == tiki_taka_conversation(transcribed_text, history, idea_context, raw)
    IN  IF reply.kind = "raised" THEN reply
        ELSE Return(Model("ConversationResponse",
                [reply_text |-> reply.value.v,
                 updated_history |->
                    history.v \o << Dict([role |-> "user", content |-> transcribed_text]),
                                    Dict([role |-> "advisor", content |-> reply.value.v]) >>]))

-----------------------------------------------------------------------------
(* AIService.generate_project_details *)

PROJECT_SYSTEM == <<"[project system instruction]">>
PROJECT_PROMPT_HEAD == <<"[Based on the following startup idea ... Idea: ]">>
PROJECT_PROMPT_TAIL == <<"[Generate: ... Professional tone]">>

NameMinLength == 1
NameMaxLength == 255
DescriptionMinLength == 50

\* the constraints of the ProjectDetails model
ProjectDetails(o) ==
    /\ Len(o.name) >= NameMinLength
    /\ Len(o.name) <= NameMaxLength
    /\ Len(o.description) >= DescriptionMinLength

ProjectConforms(raw) ==
    raw.kind = "object" => ProjectDetails(raw.payload.v)

generate_project_details_messages(transcribed_text) ==
    << Message("system", PROJECT_SYSTEM),
       Message("user", PROJECT_PROMPT_HEAD \o transcribed_text \o PROJECT_PROMPT_TAIL) >>

\* the fallback with the description trimmed like the name
project_details_fallback_trimmed(transcribed_text) ==
    Dict([name |-> StrOr(Strip(SliceTo(transcribed_text, NameCut)), NEW_PROJECT),
          description |-> StrOr(Strip(SliceTo(transcribed_text, DescriptionCut)),
                                NEW_PROJECT_DESCRIPTION)])

project_details_fallback(transcribed_text) ==
    Dict([name |-> StrOr(Strip(SliceTo(transcribed_text, NameCut)), NEW_PROJECT),
          description |-> StrOr(SliceTo(transcribed_text, DescriptionCut),
                                NEW_PROJECT_DESCRIPTION)])

generate_project_details(transcribed_text, raw) ==
    LET response == responses_parse(raw, ProjectConforms(raw))
    IN  IF response.kind = "raised"
        THEN Return(project_details_fallback(transcribed_text))
        ELSE Return(response.value.output_parsed)

-----------------------------------------------------------------------------
(* AIService.generate_survey_posts *)

SURVEY_SYSTEM == <<"[survey system instruction]">>
POST_1_HEAD == <<"W","h","a","t"," ","d","o"," ","y","o","u"," ","t","h","i","n","k"," ","a","b","o","u","t"," ">>
POST_1_TAIL == <<"?"," ","W","o","u","l","d"," ","l","o","v","e"," ","y","o","u","r"," ","t","h","o","u","g","h","t","s","!"," ","[rocket]">>
POST_2_HEAD == <<"I","'","m"," ","e","x","p","l","o","r","i","n","g"," ">>
POST_2_TAIL == <<".",".","."," ","W","h","a","t","'","s"," ","y","o","u","r"," ","t","a","k","e","?"," ","[thought balloon]">>
POST_3_HEAD == <<"Q","u","i","c","k"," ","p","o","l","l",":"," ">>
POST_3_TAIL == <<".",".","."," ","T","h","o","u","g","h","t","s","?"," ","[thinking face]">>

PostMinLength == 10
PostMaxLength == 500
PostsMinLength == 1
PostsMaxLength == 10
XCharLimit == 280
ThreadsCharLimit == 500

PLATFORM_X == <<"x">>
PLATFORM_THREADS == <<"t","h","r","e","a","d","s">>

Digit(d) == <<"0","1","2","3","4","5","6","7","8","9">>[d + 1]

\* str(n) for an integer n
RECURSIVE Digits(_)
Digits(n) == IF n < 10 THEN <<Digit(n)>> ELSE Digits(n \div 10) \o <<Digit(n % 10)>>
str(n) == IF n < 0 THEN <<"-">> \o Digits(-n) ELSE Digits(n)

\* the constraints of the SurveyPost and SurveyPostsResponse models
SurveyPost(o) == Len(o.text) >= PostMinLength /\ Len(o.text) <= PostMaxLength
SurveyPostsResponse(o) ==
    /\ Len(o.posts) >= PostsMinLength
    /\ Len(o.posts) <= PostsMaxLength
    /\ \A i \in 1..Len(o.posts) : SurveyPost(o.posts[i])

SurveyConforms(raw) ==
    raw.kind = "object" => SurveyPostsResponse(raw.payload.v)

IsPlatform(platform, name) == platform.type = "str" /\ platform.v = name

platform_instructions(platform) ==
    IF IsPlatform(platform, PLATFORM_X) THEN <<"[Optimize for X (Twitter) format ...]">>
    ELSE IF IsPlatform(platform, PLATFORM_THREADS) THEN <<"[Optimize for Threads format ...]">>
    ELSE <<"[Create engaging survey posts suitable for social media ...]">>

char_limit(platform) ==
    IF IsPlatform(platform, PLATFORM_THREADS) THEN ThreadsCharLimit ELSE XCharLimit

survey_prompt(idea_context, platform, count) ==
    <<"[Generate ]">> \o str(count) \o <<"[ engaging survey post messages ... Idea Context: ]">>
    \o idea_context \o platform_instructions(platform)
    \o <<"[Requirements for each post: ... within ]">> \o str(char_limit(platform))
    \o <<"[ characters ... Generate ]">> \o str(count) \o <<"[ unique, engaging survey posts ...]">>

generate_survey_posts_messages(idea_context, platform, count) ==
    << Message("system", SURVEY_SYSTEM),
       Message("user", survey_prompt(idea_context, platform, count)) >>

idea_preview(idea_context) ==
    IF Len(idea_context) > PreviewCut
    THEN SliceTo(idea_context, PreviewCut) \o ELLIPSIS
    ELSE idea_context

fallback_posts(idea_context) ==
    << Dict([id |-> <<"1">>, text |-> POST_1_HEAD \o idea_preview(idea_context) \o POST_1_TAIL]),
       Dict([id |-> <<"2">>, text |-> POST_2_HEAD \o idea_preview(idea_context) \o POST_2_TAIL]),
       Dict([id |-> <<"3">>, text |-> POST_3_HEAD \o idea_preview(idea_context) \o POST_3_TAIL]) >>

\* the fallback handing back all three templates, whatever the count
_get_fallback_survey_posts_all(idea_context, count) ==
    List(fallback_posts(idea_context))

_get_fallback_survey_posts(idea_context, count) ==
    List(SliceTo(fallback_posts(idea_context), count))

\* the enumeration counting from 0
enumerate_posts_from_zero(posts) ==
    [idx \in 1..Len(posts) |-> Dict([id |-> str(idx - 1), text |-> posts[idx].text])]

\* for idx, post in enumerate(posts_response.posts, start=1)
enumerate_posts(posts) ==
    [idx \in 1..Len(posts) |-> Dict([id |-> str(idx), text |-> posts[idx].text])]

generate_survey_posts(idea_context, platform, count, raw) ==
    LET response == responses_parse(raw, SurveyConforms(raw))
    IN  IF response.kind = "raised"
        THEN Return(_get_fallback_survey_posts(idea_context, count))
        ELSE LET posts_response == response.value.output_parsed
             IN  IF posts_response.type = "NoneType"
                 THEN Return(_get_fallback_survey_posts(idea_context, count))
                 ELSE Return(List(enumerate_posts(posts_response.v.posts)))

-----------------------------------------------------------------------------
(* Service calls *)

\* an operation that asks the provider again after a failed request
provider_requests_retrying(response) ==
    IF response.kind = "raised" THEN 2 ELSE 1

\* the requests one invocation issues: the one call inside the try block,
\* whatever comes of it; the except clause and the fallback builders issue none
provider_requests(response) ==
    1

NoArgs ==
    [transcribed_text |-> <<>>, conversation_history |-> None,
     caller_history |-> None, idea_context |-> None, platform |-> None, count |-> 0]

NoHttp == [status |-> 0, body |-> None]
NoRequest ==
    [client |-> "nobody", credentials |-> None, optional_user_id |-> NoResult,
     idea_id |-> 0, project_id |-> None, limit |-> 0, offset |-> 0]

\* a call is taken up when the previous one has been answered
Idle == op = "none"

AnalyzeIdea ==
    /\ Idle
    /\ \E t \in Texts, raw \in AnalysisRaw :
           /\ op' = "analyze_idea"
           /\ args' = [NoArgs EXCEPT !.transcribed_text = t]
           /\ provider' = raw
           /\ sent' = analyze_idea_messages(t)
           /\ requests' = provider_requests(responses_parse(raw, AnalysisConforms(raw)))
           /\ result' = analyze_idea(t, raw)
           /\ UNCHANGED <<request, http, projects, ideas, self, calls, download>>

\* texts of a conversation turn
ChatTexts == {t \in Texts : Len(t) <= 2}

HistoryEntries ==
    { Dict([role |-> "user", content |-> <<"h","i">>]),
      Dict([role |-> "assistant", content |-> <<"o","k">>]),
      Dict([content |-> <<"h","m">>]),
      Str(<<"j","u","n","k">>) }

RECURSIVE SeqsUpTo(_, _)
SeqsUpTo(S, n) ==
    IF n = 0 THEN {<<>>}
    ELSE LET shorter == SeqsUpTo(S, n - 1)
         IN  shorter \cup {Append(q, x) : q \in shorter, x \in S}

Histories == {None} \cup {List(h) : h \in SeqsUpTo(HistoryEntries, MaxHist)}

IdeaContexts == {None, Str(<<>>), Str(<<"i","d","e","a">>)}

ChatRaws ==
    RawFailures \cup {ChatNoChoices, ChatRaw(None)}
    \cup {ChatRaw(Str(c)) : c \in {<<>>, <<"w","h","y","?">>, <<" ","w","h","y","?","\n">>}}

TikiTakaConversation ==
    /\ Idle
    /\ \E t \in ChatTexts, h \in Histories, c \in IdeaContexts, raw \in ChatRaws :
           /\ op' = "tiki_taka_conversation"
           /\ args' = [NoArgs EXCEPT !.transcribed_text = t, !.conversation_history = h,
                                     !.caller_history = caller_history_after(t, h, c),
                                     !.idea_context = c]
           /\ provider' = raw
           /\ sent' = tiki_taka_messages(t, h, c)
           /\ requests' = provider_requests(chat_reply(raw))
           /\ result' = tiki_taka_conversation(t, h, c, raw)
           /\ UNCHANGED <<request, http, projects, ideas, self, calls, download>>

Respond ==
    /\ Idle
    /\ \E t \in ChatTexts, h \in Histories \ {None}, c \in IdeaContexts, raw \in ChatRaws :
           /\ op' = "respond"
           /\ args' = [NoArgs EXCEPT !.transcribed_text = t, !.conversation_history = h,
                                     !.caller_history = caller_history_after(t, h, c),
                                     !.idea_context = c]
           /\ provider' = raw
           /\ sent' = tiki_taka_messages(t, h, c)
           /\ requests' = provider_requests(chat_reply(raw))
           /\ result' = respond(t, h, c, raw)
           /\ UNCHANGED <<request, http, projects, ideas, self, calls, download>>

ProjectObjects ==
    { [name |-> Rep("n", n), description |-> Rep("d", d)] :
        n \in {0, 1, 255, 256}, d \in {49, 50} }

ProjectRaw ==
    RawFailures \cup {RawRefusal}
    \cup {RawObject("ProjectDetails", o) : o \in ProjectObjects}

GenerateProjectDetails ==
    /\ Idle
    /\ \E t \in Texts, raw \in ProjectRaw :
           /\ op' = "generate_project_details"
           /\ args' = [NoArgs EXCEPT !.transcribed_text = t]
           /\ provider' = raw
           /\ sent' = generate_project_details_messages(t)
           /\ requests' = provider_requests(responses_parse(raw, ProjectConforms(raw)))
           /\ result' = generate_project_details(t, raw)
           /\ UNCHANGED <<request, http, projects, ideas, self, calls, download>>

SurveyContexts == {t \in Texts : Len(t) <= 1 \/ Len(t) \in 99..102}

Platforms == {None, Str(PLATFORM_X), Str(PLATFORM_THREADS), Str(<<"i","g">>)}

Counts == 0..MaxCount

SurveyObjects ==
    { [posts |-> [i \in 1..n |-> [text |-> Rep("p", 10)]]] : n \in 0..11 }
    \cup { [posts |-> << [text |-> Rep("p", l)] >>] : l \in {9, 500, 501} }

SurveyRaw ==
    RawFailures \cup {RawRefusal}
    \cup {RawObject("SurveyPostsResponse", o) : o \in SurveyObjects}

GenerateSurveyPosts ==
    /\ Idle
    /\ \E c \in SurveyContexts, p \in Platforms, n \in Counts, raw \in SurveyRaw :
           /\ op' = "generate_survey_posts"
           /\ args' = [NoArgs EXCEPT !.idea_context = Str(c), !.platform = p, !.count = n]
           /\ provider' = raw
           /\ sent' = generate_survey_posts_messages(c, p, n)
           /\ requests' = provider_requests(responses_parse(raw, SurveyConforms(raw)))
           /\ result' = generate_survey_posts(c, p, n, raw)
           /\ UNCHANGED <<request, http, projects, ideas, self, calls, download>>

-----------------------------------------------------------------------------
(* dependencies.py: the caller's identity *)

HTTP_200_OK == 200
HTTP_201_CREATED == 201
HTTP_401_UNAUTHORIZED == 401
HTTP_404_NOT_FOUND == 404
HTTP_422_UNPROCESSABLE == 422
HTTP_500_INTERNAL_SERVER_ERROR == 500

Http(status, body) == [status |-> status, body |-> body]

\* the people who send requests; two of them send no credentials
Clients == {"anonA", "anonB", "alice", "bob", "mallory", "trudy"}

credentials_of(client) ==
    CASE client = "alice" -> Str("token-alice")
      [] client = "bob" -> Str("token-bob")
      [] client = "mallory" -> Str("malformed")
      [] client = "trudy" -> Str("expired")
      [] OTHER -> None

\* supabase_service.get_user_id(token): the user id of a valid token, a
\* ValueError on a malformed one, another exception when verification fails
supabase_get_user_id(token) ==
    CASE token = "token-alice" -> Return(Str("user-alice"))
      [] token = "token-bob" -> Return(Str("user-bob"))
      [] token = "malformed" -> Raise("ValueError")
      [] OTHER -> Raise("Exception")

\* get_current_user treating a token that fails verification as no token
get_current_user_lenient(credentials) ==
    IF credentials.type = "NoneType" THEN Return(None)
    ELSE LET user_id == supabase_get_user_id(credentials.v)
         IN  IF user_id.kind = "raised"
             THEN Return(None)
             ELSE user_id

get_current_user(credentials) ==
    IF credentials.type = "NoneType" THEN Return(None)
    ELSE LET user_id == supabase_get_user_id(credentials.v)
         IN  IF user_id.kind = "raised"
             THEN Raise(HTTP_401_UNAUTHORIZED)
             ELSE user_id

get_user_id_or_anonymous(user_id) ==
    IF user_id.type = "str" /\ user_id.v # "" THEN user_id.v ELSE "anonymous"

-----------------------------------------------------------------------------
(* routers/projects.py: POST /api/v1/projects/generate-details *)

RequestTextMinLength == 10

\* details.name, details.description: attribute access on the service's result
HasAttributes(details) == details.type = "ProjectDetails"

route_generate_project_details(credentials, transcribed_text, raw) ==
    LET optional_user_id == get_current_user(credentials)
        details == generate_project_details(transcribed_text, raw)
    IN  IF optional_user_id.kind = "raised"
        THEN Http(HTTP_401_UNAUTHORIZED, None)
        ELSE IF Len(transcribed_text) < RequestTextMinLength
        THEN Http(HTTP_422_UNPROCESSABLE, None)
        ELSE IF details.kind = "raised" \/ ~HasAttributes(details.value)
        THEN Http(HTTP_500_INTERNAL_SERVER_ERROR, None)
        ELSE Http(HTTP_200_OK,
                  Model("ProjectDetailsResponse",
                        [name |-> details.value.v.name,
                         description |-> details.value.v.description]))

\* whether the route gets as far as calling the service
AcceptsGenerateDetails(credentials, transcribed_text) ==
    /\ get_current_user(credentials).kind = "returned"
    /\ Len(transcribed_text) >= RequestTextMinLength

RouteGenerateProjectDetails ==
    /\ Idle
    /\ \E client \in Clients, t \in Texts, raw \in ProjectRaw :
           /\ op' = "POST /projects/generate-details"
           /\ request' = [NoRequest EXCEPT
                              !.client = client,
                              !.credentials = credentials_of(client),
                              !.optional_user_id = get_current_user(credentials_of(client))]
           /\ args' = [NoArgs EXCEPT !.transcribed_text = t]
           /\ provider' = IF AcceptsGenerateDetails(credentials_of(client), t)
                          THEN raw ELSE RawText
           /\ sent' = IF AcceptsGenerateDetails(credentials_of(client), t)
                      THEN generate_project_details_messages(t) ELSE <<>>
           /\ requests' = IF AcceptsGenerateDetails(credentials_of(client), t)
                          THEN provider_requests(responses_parse(raw, ProjectConforms(raw)))
                          ELSE 0
           /\ result' = IF AcceptsGenerateDetails(credentials_of(client), t)
                        THEN generate_project_details(t, raw) ELSE NoResult
           /\ http' = route_generate_project_details(credentials_of(client), t, raw)
           /\ UNCHANGED <<projects, ideas, self, calls, download>>

-----------------------------------------------------------------------------
(* The projects and ideas tables.  A row's id is its position in the table   *)
(* and rows are created in that order.  created_by is not a column: it       *)
(* records which client sent the request that created the row.               *)

ProjectRow(id, user_id, name, description, client) ==
    [id |-> id, user_id |-> user_id, name |-> name, description |-> description,
     created_by |-> client]

IdeaRow(id, user_id, project_id, transcribed_text, analysis_json, client) ==
    [id |-> id, user_id |-> user_id, project_id |-> project_id,
     transcribed_text |-> transcribed_text, analysis_json |-> analysis_json,
     created_by |-> client]

\* the select without its user_id condition
SelectById(table, id, user_id) ==
    LET hits == {i \in 1..Len(table) : table[i].id = id}
    IN  IF hits = {} THEN None ELSE Model("row", table[CHOOSE i \in hits : TRUE])

\* select(...).where(id == ..., user_id == ...) ... scalar_one_or_none()
SelectOwned(table, id, user_id) ==
    LET hits == {i \in 1..Len(table) : table[i].id = id /\ table[i].user_id = user_id}
    IN  IF hits = {} THEN None ELSE Model("row", table[CHOOSE i \in hits : TRUE])

Reverse(q) == [i \in 1..Len(q) |-> q[Len(q) + 1 - i]]

\* .order_by(created_at.desc()).limit(limit).offset(offset)
Page(rows, limit, offset) ==
    LET newest == Reverse(rows)
        last == IF offset + limit < Len(newest) THEN offset + limit ELSE Len(newest)
    IN  SubSeq(newest, offset + 1, last)

IdeaResponse(idea) ==
    Model("IdeaResponse",
          [id |-> idea.id, user_id |-> idea.user_id, project_id |-> idea.project_id,
           transcribed_text |-> idea.transcribed_text, analysis |-> idea.analysis_json])

ProjectResponse(project) ==
    Model("ProjectResponse",
          [id |-> project.id, user_id |-> project.user_id, name |-> project.name,
           description |-> project.description])

\* what a route does: its answer and the tables after it
Outcome(answer, projects_after, ideas_after) ==
    [http |-> answer, projects |-> projects_after, ideas |-> ideas_after]

Unchanged(answer) == Outcome(answer, projects, ideas)

\* the resolved user id of a request that passed get_current_user
ResolvedUser(credentials) ==
    get_user_id_or_anonymous(get_current_user(credentials).value)

Rejected(credentials) == get_current_user(credentials).kind = "raised"

-----------------------------------------------------------------------------
(* routers/ideas.py *)

\* POST /api/v1/ideas/analyze
route_analyze_idea(client, credentials, transcribed_text, project_id, raw) ==
    LET user_id == ResolvedUser(credentials)
        analysis == analyze_idea(transcribed_text, raw)
    IN  IF Rejected(credentials) THEN Unchanged(Http(HTTP_401_UNAUTHORIZED, None))
        ELSE IF Truthy(project_id)
                /\ SelectOwned(projects, project_id.v, user_id).type = "NoneType"
        THEN Unchanged(Http(HTTP_404_NOT_FOUND, None))
        ELSE IF analysis.kind = "raised" \/ analysis.value.type # "ExtendedIdeaAnalysis"
        THEN Unchanged(Http(HTTP_500_INTERNAL_SERVER_ERROR, None))
        ELSE LET idea == IdeaRow(Len(ideas) + 1, user_id, project_id, transcribed_text,
                                 analysis.value.v, client)
             IN  Outcome(Http(HTTP_201_CREATED, IdeaResponse(idea)),
                         projects, Append(ideas, idea))

\* whether the route gets as far as calling the service
ReachesAnalysis(credentials, project_id) ==
    /\ ~Rejected(credentials)
    /\ ~(/\ Truthy(project_id)
         /\ SelectOwned(projects, project_id.v, ResolvedUser(credentials)).type = "NoneType")

\* GET /api/v1/ideas/{idea_id}
route_get_idea(credentials, idea_id) ==
    LET user_id == ResolvedUser(credentials)
        idea == SelectOwned(ideas, idea_id, user_id)
    IN  IF Rejected(credentials) THEN Unchanged(Http(HTTP_401_UNAUTHORIZED, None))
        ELSE IF idea.type = "NoneType"
        THEN Unchanged(Http(HTTP_404_NOT_FOUND, None))
        ELSE Unchanged(Http(HTTP_200_OK, IdeaResponse(idea.v)))

\* GET /api/v1/ideas
route_list_ideas(credentials, project_id, limit, offset) ==
    LET user_id == ResolvedUser(credentials)
        Mine(idea) ==
            /\ idea.user_id = user_id
            /\ Truthy(project_id) => idea.project_id = project_id
        page == Page(SelectSeq(ideas, Mine), limit, offset)
    IN  IF Rejected(credentials) THEN Unchanged(Http(HTTP_401_UNAUTHORIZED, None))
        ELSE Unchanged(Http(HTTP_200_OK,
                            List([i \in 1..Len(page) |-> IdeaResponse(page[i])])))

\* update_idea attaching the idea to whatever project id it is given
route_update_idea_unvalidated(credentials, idea_id, project_id) ==
    LET user_id == ResolvedUser(credentials)
        idea == SelectOwned(ideas, idea_id, user_id)
    IN  IF Rejected(credentials) THEN Unchanged(Http(HTTP_401_UNAUTHORIZED, None))
        ELSE IF idea.type = "NoneType"
        THEN Unchanged(Http(HTTP_404_NOT_FOUND, None))
        ELSE IF project_id.type = "NoneType"
        THEN Unchanged(Http(HTTP_200_OK, IdeaResponse(idea.v)))
        ELSE LET updated == [idea.v EXCEPT !.project_id = project_id]
             IN  Outcome(Http(HTTP_200_OK, IdeaResponse(updated)),
                         projects, [ideas EXCEPT ![idea.v.id] = updated])

\* PATCH /api/v1/ideas/{idea_id}
route_update_idea(credentials, idea_id, project_id) ==
    LET user_id == ResolvedUser(credentials)
        idea == SelectOwned(ideas, idea_id, user_id)
    IN  IF Rejected(credentials) THEN Unchanged(Http(HTTP_401_UNAUTHORIZED, None))
        ELSE IF idea.type = "NoneType"
        THEN Unchanged(Http(HTTP_404_NOT_FOUND, None))
        ELSE IF project_id.type = "NoneType"
        THEN Unchanged(Http(HTTP_200_OK, IdeaResponse(idea.v)))
        ELSE IF SelectOwned(projects, project_id.v, user_id).type = "NoneType"
        THEN Unchanged(Http(HTTP_404_NOT_FOUND, None))
        ELSE LET updated == [idea.v EXCEPT !.project_id = project_id]
             IN  Outcome(Http(HTTP_200_OK, IdeaResponse(updated)),
                         projects, [ideas EXCEPT ![idea.v.id] = updated])

-----------------------------------------------------------------------------
(* routers/projects.py *)

\* GET /api/v1/projects
route_list_projects(credentials, limit, offset) ==
    LET user_id == ResolvedUser(credentials)
        Mine(project) == project.user_id = user_id
        page == Page(SelectSeq(projects, Mine), limit, offset)
    IN  IF Rejected(credentials) THEN Unchanged(Http(HTTP_401_UNAUTHORIZED, None))
        ELSE Unchanged(Http(HTTP_200_OK,
                            List([i \in 1..Len(page) |-> ProjectResponse(page[i])])))

\* POST /api/v1/projects
route_create_project(client, credentials, name, description) ==
    LET user_id == ResolvedUser(credentials)
        project == ProjectRow(Len(projects) + 1, user_id, name, description, client)
    IN  IF Rejected(credentials) THEN Unchanged(Http(HTTP_401_UNAUTHORIZED, None))
        ELSE Outcome(Http(HTTP_201_CREATED, ProjectResponse(project)),
                     Append(projects, project), ideas)

\* GET /api/v1/projects/{project_id}
route_get_project(credentials, project_id) ==
    LET user_id == ResolvedUser(credentials)
        project == SelectOwned(projects, project_id, user_id)
    IN  IF Rejected(credentials) THEN Unchanged(Http(HTTP_401_UNAUTHORIZED, None))
        ELSE IF project.type = "NoneType"
        THEN Unchanged(Http(HTTP_404_NOT_FOUND, None))
        ELSE Unchanged(Http(HTTP_200_OK, ProjectResponse(project.v)))

-----------------------------------------------------------------------------
(* Requests to the routes *)

RouteClients == {"anonA", "anonB", "alice", "mallory"}

\* the callers who create projects: one of each kind; the second anonymous
\* caller reads and attaches what the first created
ProjectCreators == RouteClients \ {"anonB"}

RouteText == Rep("x", 12)
\* the provider either answers with an analysis or refuses; its failures are
\* exercised on the service itself
RouteRaws == {RawRefusal, RawObject("ExtendedIdeaAnalysis", BaseAnalysis)}
ProjectName == <<"T","o","o","l","s">>
ProjectDescription == <<"R","e","n","t"," ","t","o","o","l","s">>

IdeaIds == 1..(MaxIdeas + 1)
ProjectIds == 0..(MaxProjects + 1)
OptionalProjectIds == {None} \cup {Integer(p) : p \in ProjectIds}
ProjectFilters == {None, Integer(0), Integer(1)}
Pages == {<<50, 0>>, <<1, 1>>}

\* the request is answered and the tables are left as the route left them
Answer(name, req, outcome) ==
    /\ op' = name
    /\ request' = req
    /\ http' = outcome.http
    /\ projects' = outcome.projects
    /\ ideas' = outcome.ideas
    /\ UNCHANGED <<self, calls, download>>

RequestOf(client) ==
    [NoRequest EXCEPT !.client = client, !.credentials = credentials_of(client),
                      !.optional_user_id = get_current_user(credentials_of(client))]

RouteAnalyzeIdea ==
    /\ Idle
    /\ Len(ideas) < MaxIdeas
    /\ \E client \in RouteClients, p \in OptionalProjectIds, raw \in RouteRaws :
           /\ Answer("POST /ideas/analyze",
                     [RequestOf(client) EXCEPT !.project_id = p],
                     route_analyze_idea(client, credentials_of(client), RouteText, p, raw))
           /\ args' = [NoArgs EXCEPT !.transcribed_text = RouteText]
           /\ provider' = IF ReachesAnalysis(credentials_of(client), p)
                          THEN raw ELSE RawText
           /\ sent' = IF ReachesAnalysis(credentials_of(client), p)
                      THEN analyze_idea_messages(RouteText) ELSE <<>>
           /\ requests' = IF ReachesAnalysis(credentials_of(client), p)
                          THEN provider_requests(responses_parse(raw, AnalysisConforms(raw)))
                          ELSE 0
           /\ result' = IF ReachesAnalysis(credentials_of(client), p)
                        THEN analyze_idea(RouteText, raw) ELSE NoResult

RouteGetIdea ==
    /\ Idle
    /\ \E client \in RouteClients, id \in IdeaIds :
           /\ Answer("GET /ideas/{idea_id}",
                     [RequestOf(client) EXCEPT !.idea_id = id],
                     route_get_idea(credentials_of(client), id))
           /\ UNCHANGED <<args, provider, sent, requests, result>>

RouteListIdeas ==
    /\ Idle
    /\ \E client \in RouteClients, p \in ProjectFilters, page \in Pages :
           /\ Answer("GET /ideas",
                     [RequestOf(client) EXCEPT !.project_id = p, !.limit = page[1],
                                               !.offset = page[2]],
                     route_list_ideas(credentials_of(client), p, page[1], page[2]))
           /\ UNCHANGED <<args, provider, sent, requests, result>>

RouteUpdateIdea ==
    /\ Idle
    /\ \E client \in RouteClients, id \in IdeaIds, p \in OptionalProjectIds :
           /\ Answer("PATCH /ideas/{idea_id}",
                     [RequestOf(client) EXCEPT !.idea_id = id, !.project_id = p],
                     route_update_idea(credentials_of(client), id, p))
           /\ UNCHANGED <<args, provider, sent, requests, result>>

RouteListProjects ==
    /\ Idle
    /\ \E client \in RouteClients, page \in Pages :
           /\ Answer("GET /projects",
                     [RequestOf(client) EXCEPT !.limit = page[1], !.offset = page[2]],
                     route_list_projects(credentials_of(client), page[1], page[2]))
           /\ UNCHANGED <<args, provider, sent, requests, result>>

RouteCreateProject ==
    /\ Idle
    /\ Len(projects) < MaxProjects
    /\ \E client \in ProjectCreators :
           /\ Answer("POST /projects", RequestOf(client),
                     route_create_project(client, credentials_of(client),
                                          ProjectName, ProjectDescription))
           /\ UNCHANGED <<args, provider, sent, requests, result>>

RouteGetProject ==
    /\ Idle
    /\ \E client \in RouteClients, p \in ProjectIds :
           /\ Answer("GET /projects/{project_id}",
                     [RequestOf(client) EXCEPT !.project_id = Integer(p)],
                     route_get_project(credentials_of(client), p))
           /\ UNCHANGED <<args, provider, sent, requests, result>>

-----------------------------------------------------------------------------
(* The shared instance: ai_service = AIService(), and the calls that run on  *)
(* it at the same time.  A call runs up to its await of the provider, is     *)
(* suspended while other calls run, and runs on when its response arrives.   *)

\* AIService.__init__
AIService_init == [client |-> "AsyncOpenAI", model |-> "settings.openai_model"]

\* an operation that keeps the name of the last operation in a field
AIService_after_remembering(instance, frame) ==
    [instance EXCEPT !.model = frame.op]

\* the fields of the instance after an operation has run one of its steps:
\* no method but __init__ assigns to self
AIService_after(instance, frame) ==
    instance

CallIds == 1..MaxCalls

NoFrame ==
    [pc |-> "idle", op |-> "none", args |-> NoArgs,
     request |-> [model |-> "", messages |-> <<>>], provider |-> RawText,
     result |-> NoResult]

\* the calls made concurrently: each operation, two of them on two inputs
ConcurrentCalls ==
    { [op |-> "analyze_idea", args |-> [NoArgs EXCEPT !.transcribed_text = t]] :
        t \in {<<"a">>, <<"b">>} }
    \cup { [op |-> "tiki_taka_conversation",
            args |-> [NoArgs EXCEPT !.transcribed_text = <<"a">>,
                                    !.conversation_history = List(<<>>),
                                    !.idea_context = Str(<<"i","d","e","a">>)]],
           [op |-> "tiki_taka_conversation",
            args |-> [NoArgs EXCEPT !.transcribed_text = <<"b">>,
                                    !.conversation_history =
                                        List(<<Dict([role |-> "user",
                                                     content |-> <<"h","i">>])>>)]],
           [op |-> "generate_project_details",
            args |-> [NoArgs EXCEPT !.transcribed_text = <<"a">>]],
           [op |-> "generate_survey_posts",
            args |-> [NoArgs EXCEPT !.idea_context = Str(<<"i","d","e","a">>),
                                    !.platform = Str(PLATFORM_X), !.count = 2]] }

\* what the provider may answer to a call: a failure or a well-formed answer
ConcurrentRaws(name) ==
    CASE name = "analyze_idea" ->
            {RawText, RawObject("ExtendedIdeaAnalysis", BaseAnalysis)}
      [] name = "tiki_taka_conversation" ->
            {RawText, ChatRaw(Str(<<"w","h","y","?">>))}
      [] name = "generate_project_details" ->
            {RawText, RawObject("ProjectDetails",
                                [name |-> Rep("n", NameMinLength),
                                 description |-> Rep("d", DescriptionMinLength)])}
      [] name = "generate_survey_posts" ->
            {RawText, RawObject("SurveyPostsResponse",
                                [posts |-> [i \in 1..2 |->
                                               [text |-> Rep("p", PostMinLength)]]])}

\* the messages an operation builds from its arguments
service_messages(name, a) ==
    CASE name = "analyze_idea" -> analyze_idea_messages(a.transcribed_text)
      [] name = "tiki_taka_conversation" ->
            tiki_taka_messages(a.transcribed_text, a.conversation_history, a.idea_context)
      [] name = "generate_project_details" ->
            generate_project_details_messages(a.transcribed_text)
      [] name = "generate_survey_posts" ->
            generate_survey_posts_messages(a.idea_context.v, a.platform, a.count)

\* what an operation makes of the provider's answer
service_result(name, a, raw) ==
    CASE name = "analyze_idea" -> analyze_idea(a.transcribed_text, raw)
      [] name = "tiki_taka_conversation" ->
            tiki_taka_conversation(a.transcribed_text, a.conversation_history,
                                   a.idea_context, raw)
      [] name = "generate_project_details" ->
            generate_project_details(a.transcribed_text, raw)
      [] name = "generate_survey_posts" ->
            generate_survey_posts(a.idea_context.v, a.platform, a.count, raw)

\* await self.client...(model=self.model, ...): the request that leaves
provider_request(instance, messages) ==
    [model |-> instance.model, messages |-> messages]

Others == <<op, args, provider, sent, requests, result, request, http, projects, ideas>>

\* a call enters an operation, builds its messages, sends its request and is
\* suspended at the await
Begin(c) ==
    /\ calls[c].pc = "idle"
    /\ \E call \in ConcurrentCalls :
           LET frame == [NoFrame EXCEPT
                            !.pc = "awaiting",
                            !.op = call.op,
                            !.args = call.args,
                            !.request = provider_request(
                                            self, service_messages(call.op, call.args))]
           IN  /\ calls' = [calls EXCEPT ![c] = frame]
               /\ self' = AIService_after(self, frame)
    /\ UNCHANGED <<Others, download>>

\* the provider's answer arrives; the call runs to its return statement
Resume(c) ==
    /\ calls[c].pc = "awaiting"
    /\ \E raw \in ConcurrentRaws(calls[c].op) :
           LET frame == [calls[c] EXCEPT
                            !.pc = "returned",
                            !.provider = raw,
                            !.result = service_result(calls[c].op, calls[c].args, raw)]
           IN  /\ calls' = [calls EXCEPT ![c] = frame]
               /\ self' = AIService_after(self, frame)
    /\ UNCHANGED <<Others, download>>

\* the caller takes the result
Finish(c) ==
    /\ calls[c].pc = "returned"
    /\ calls' = [calls EXCEPT ![c] = NoFrame]
    /\ UNCHANGED self
    /\ UNCHANGED <<Others, download>>

-----------------------------------------------------------------------------
(* scripts/download_supertonic_models.py: download_models(assets_dir, force) *)
(* A directory is the set of its entries; an entry has a name and the place  *)
(* it came from: "old" was there before the run, "repo" came with the clone, *)
(* "partial" is a repository entry whose large files were not pulled.        *)

Entry(name, origin) == [name |-> name, origin |-> origin]

Names(dir) == {e.name : e \in dir}

\* what the assets directory may hold before the run
OldEntries == {Entry("onnx", "old"), Entry("voice_styles", "old"), Entry("notes.txt", "old")}

\* what the user types at the prompt; "eof" is a closed standard input
Responses == {"y", "Y", "n", "yes", "", "eof"}

\* response.lower()
lower(response) == IF response = "Y" THEN "y" ELSE response

\* git clone and git lfs pull: they fail, or leave the repository complete,
\* or leave it without its large files
CloneOutcomes == {"CalledProcessError", "complete", "partial"}

cloned_repository(outcome) ==
    IF outcome = "complete"
    THEN {Entry(".git", "repo"), Entry("onnx", "repo"), Entry("voice_styles", "repo")}
    ELSE {Entry(".git", "repo"), Entry("onnx", "partial"), Entry("voice_styles", "repo")}

NoDownload ==
    [pc |-> "idle", force |-> FALSE, before |-> {}, assets_dir |-> {},
     response |-> "", temp_dir |-> {}, cloned |-> FALSE, returned |-> "none"]

Returned(run, value) == [run EXCEPT !.pc = "returned", !.returned = value]

\* lines 51-61: the warning and the prompt
confirm_overwrite(run, response) ==
    IF run.assets_dir = {} THEN [run EXCEPT !.pc = "prepare"]
    ELSE IF run.force THEN [run EXCEPT !.pc = "prepare"]
    ELSE IF response = "eof" THEN Returned([run EXCEPT !.response = response], "EOFError")
    ELSE IF lower(response) # "y"
    THEN Returned([run EXCEPT !.response = response], "False")
    ELSE [run EXCEPT !.pc = "prepare", !.response = response]

\* lines 68-85: a directory with content is removed under force and ends the
\* run otherwise
prepare_target(run) ==
    IF run.assets_dir # {}
    THEN IF run.force
         THEN [run EXCEPT !.pc = "clone", !.assets_dir = {}]
         ELSE Returned(run, "False")
    ELSE [run EXCEPT !.pc = "clone"]

\* lines 89-151: git clone into a temporary directory, git lfs pull
clone_repository(run, outcome) ==
    IF outcome = "CalledProcessError"
    THEN Returned(run, "False")
    ELSE [run EXCEPT !.pc = "move", !.cloned = TRUE,
                     !.temp_dir = cloned_repository(outcome)]

\* lines 155-171: every entry but .git replaces the entry of its name
move_files(run) ==
    LET moved == {e \in run.temp_dir : e.name # ".git"}
    IN  [run EXCEPT !.pc = "verify",
                    !.assets_dir = {e \in run.assets_dir : e.name \notin Names(moved)}
                                   \cup moved,
                    !.temp_dir = {}]

\* lines 177-212: the required files are looked for
verify_files(run) ==
    IF Entry("onnx", "repo") \in run.assets_dir
    THEN Returned(run, "True")
    ELSE Returned(run, "False")

Rest == <<Others, self, calls>>

DownloadModels ==
    /\ download.pc = "idle"
    /\ \E force \in BOOLEAN, dir \in SUBSET OldEntries :
           download' = [NoDownload EXCEPT !.pc = "confirm", !.force = force,
                                          !.before = dir, !.assets_dir = dir]
    /\ UNCHANGED Rest

ConfirmOverwrite ==
    /\ download.pc = "confirm"
    /\ \E response \in Responses :
           /\ (download.assets_dir = {} \/ download.force) => response = ""
           /\ download' = confirm_overwrite(download, response)
    /\ UNCHANGED Rest

PrepareTarget ==
    /\ download.pc = "prepare"
    /\ download' = prepare_target(download)
    /\ UNCHANGED Rest

CloneRepository ==
    /\ download.pc = "clone"
    /\ \E outcome \in CloneOutcomes : download' = clone_repository(download, outcome)
    /\ UNCHANGED Rest

MoveFiles ==
    /\ download.pc = "move"
    /\ download' = move_files(download)
    /\ UNCHANGED Rest

VerifyFiles ==
    /\ download.pc = "verify"
    /\ download' = verify_files(download)
    /\ UNCHANGED Rest

\* main() exits with the result; the script may be run again
DownloadExits ==
    /\ download.pc = "returned"
    /\ download' = NoDownload
    /\ UNCHANGED Rest

-----------------------------------------------------------------------------
Init ==
    /\ op = "none"
    /\ args = NoArgs
    /\ provider = RawText
    /\ sent = <<>>
    /\ requests = 0
    /\ result = NoResult
    /\ request = NoRequest
    /\ http = NoHttp
    /\ projects = <<>>
    /\ ideas = <<>>
    /\ self = AIService_init
    /\ calls = [c \in CallIds |-> NoFrame]
    /\ download = NoDownload

\* the answer is handed to the caller; the next call starts afresh
Complete ==
    /\ ~Idle
    /\ op' = "none"
    /\ args' = NoArgs
    /\ provider' = RawText
    /\ sent' = <<>>
    /\ requests' = 0
    /\ result' = NoResult
    /\ request' = NoRequest
    /\ http' = NoHttp
    /\ UNCHANGED <<projects, ideas, self, calls, download>>

Next ==
    \/ AnalyzeIdea
    \/ TikiTakaConversation
    \/ Respond
    \/ GenerateProjectDetails
    \/ GenerateSurveyPosts
    \/ RouteGenerateProjectDetails
    \/ Complete

Spec == Init /\ [][Next]_vars

NextRoutes ==
    \/ RouteAnalyzeIdea
    \/ RouteGetIdea
    \/ RouteListIdeas
    \/ RouteUpdateIdea
    \/ RouteListProjects
    \/ RouteCreateProject
    \/ RouteGetProject
    \/ Complete

SpecRoutes == Init /\ [][NextRoutes]_vars

NextConcurrent ==
    \/ \E c \in CallIds : Begin(c)
    \/ \E c \in CallIds : Resume(c)
    \/ \E c \in CallIds : Finish(c)

SpecConcurrent == Init /\ [][NextConcurrent]_vars

NextDownload ==
    \/ DownloadModels
    \/ ConfirmOverwrite
    \/ PrepareTarget
    \/ CloneRepository
    \/ MoveFiles
    \/ VerifyFiles
    \/ DownloadExits

SpecDownload == Init /\ [][NextDownload]_vars

-----------------------------------------------------------------------------
(* Properties of the service operations, checked under Spec *)

\* whether the provider call of the operation that ran raised
ProviderCallFailed ==
    CASE op = "analyze_idea" ->
            responses_parse(provider, AnalysisConforms(provider)).kind = "raised"
      [] op \in {"generate_project_details", "POST /projects/generate-details"} ->
            responses_parse(provider, ProjectConforms(provider)).kind = "raised"
      [] op = "generate_survey_posts" ->
            responses_parse(provider, SurveyConforms(provider)).kind = "raised"
      [] op \in {"tiki_taka_conversation", "respond"} ->
            chat_reply(provider).kind = "raised"
      [] OTHER -> FALSE

ServiceOperations ==
    {"analyze_idea", "tiki_taka_conversation", "generate_project_details",
     "generate_survey_posts"}

\* C1: when the provider call of analyze_idea fails, the analysis returned has
\* saturation_score 5.0, juicy_score 5.0, validation_priority Medium, no
\* sources and exactly 3 actionable items, whatever the idea text.
C1_FallbackAnalysis ==
    (op = "analyze_idea" /\ ProviderCallFailed) =>
        /\ result.kind = "returned"
        /\ result.value.type = "ExtendedIdeaAnalysis"
        /\ result.value.v.saturation_score = 5
        /\ result.value.v.juicy_score = 5
        /\ result.value.v.validation_priority = "Medium"
        /\ result.value.v.sources = <<>>
        /\ Len(result.value.v.actionable_items) = 3

C1_Witness ==
    /\ op = "analyze_idea"
    /\ provider.kind = "object"
    /\ ProviderCallFailed
    /\ Len(args.transcribed_text) > SummaryCut
    /\ result.kind = "returned"
    /\ Len(result.value.v.actionable_items) = 3

\* C2 as stated: analyze_idea called with empty text raises InvalidInput and
\* never returns an analysis, whatever the provider does.
C2_EmptyTextRaises ==
    (op = "analyze_idea" /\ args.transcribed_text = <<>>) =>
        /\ result.kind = "raised"
        /\ result.value.v = "InvalidInput"

\* C2 amended: analyze_idea does not check its input; called with empty text
\* it never raises: it returns the provider's parsed output when the call
\* completes and the fallback analysis when the provider call fails.
C2_EmptyTextIsAnalysed ==
    (op = "analyze_idea" /\ args.transcribed_text = <<>>) =>
        /\ result.kind = "returned"
        /\ ProviderCallFailed =>
              /\ result.value.type = "ExtendedIdeaAnalysis"
              /\ result.value.v.summary = SUMMARY_PREFIX \o ELLIPSIS
              /\ result.value.v.saturation_score = 5
        /\ ~ProviderCallFailed => result.value = provider.payload

C2_Witness ==
    /\ op = "analyze_idea"
    /\ args.transcribed_text = <<>>
    /\ ProviderCallFailed
    /\ result.kind = "returned"
    /\ result.value.type = "ExtendedIdeaAnalysis"

\* C3: when the provider call fails on a request the generate-details route
\* accepted, the route answers 200 with the fallback name and description and
\* never answers 500.
C3_GenerateDetailsNever500 ==
    (/\ op = "POST /projects/generate-details"
     /\ AcceptsGenerateDetails(request.credentials, args.transcribed_text)
     /\ ProviderCallFailed) =>
        /\ http.status # HTTP_500_INTERNAL_SERVER_ERROR
        /\ http.status = HTTP_200_OK

\* C4: each of the four service operations returns a value and propagates no
\* exception when its provider call fails, whatever the kind of failure.
C4_FailureNeverPropagates ==
    (op \in ServiceOperations /\ ProviderCallFailed) => result.kind = "returned"

C4_Witness ==
    /\ op = "generate_survey_posts"
    /\ provider.kind = "object"
    /\ ProviderCallFailed
    /\ result.kind = "returned"

C6_ProjectDetailsConform ==
    (op = "generate_project_details" /\ result.kind = "returned") =>
        /\ result.value.type \in {"ProjectDetails", "dict"}
        /\ ProjectDetails(result.value.v)

\* C8: when the provider call of analyze_idea completes, the object returned
\* satisfies the ExtendedIdeaAnalysis schema; a response without a parsed
\* object is replaced by the fallback and never handed to the caller.
C8_AnalysisConforms ==
    (op = "analyze_idea" /\ ~ProviderCallFailed) =>
        /\ result.kind = "returned"
        /\ result.value.type = "ExtendedIdeaAnalysis"
        /\ ExtendedIdeaAnalysis(result.value.v)
        /\ provider.kind = "refusal" =>
              result.value.v.problem_statement = FALLBACK_PROBLEM_STATEMENT

\* C9 as stated: on provider failure with input that is empty after trimming,
\* generate_project_details returns the placeholder name and the placeholder
\* description.
C9_PlaceholderNameAndDescription ==
    (/\ op = "generate_project_details"
     /\ ProviderCallFailed
     /\ Strip(args.transcribed_text) = <<>>) =>
        /\ result.kind = "returned"
        /\ result.value.v.name = NEW_PROJECT
        /\ result.value.v.description = NEW_PROJECT_DESCRIPTION

\* C9 amended: on provider failure with input that is empty after trimming,
\* generate_project_details returns the placeholder name "New Project"; the
\* description is the placeholder only when the input is the empty string,
\* and otherwise the first 500 characters of the input, blanks kept.
C9_PlaceholderNameOnly ==
    (/\ op = "generate_project_details"
     /\ ProviderCallFailed
     /\ Strip(args.transcribed_text) = <<>>) =>
        /\ result.kind = "returned"
        /\ result.value.v.name = NEW_PROJECT
        /\ result.value.v.description =
              IF args.transcribed_text = <<>>
              THEN NEW_PROJECT_DESCRIPTION
              ELSE IF Len(args.transcribed_text) > DescriptionCut
              THEN SubSeq(args.transcribed_text, 1, DescriptionCut)
              ELSE args.transcribed_text

C9_Witness ==
    /\ op = "generate_project_details"
    /\ ProviderCallFailed
    /\ args.transcribed_text # <<>>
    /\ Strip(args.transcribed_text) = <<>>
    /\ result.value.v.name = NEW_PROJECT
    /\ Len(result.value.v.description) = DescriptionCut
    /\ Strip(result.value.v.description) = <<>>

\* C10: the number of posts generate_survey_posts returns is at most the
\* requested count, from the provider and from the fallback alike.
C10_CountBoundsPosts ==
    (op = "generate_survey_posts" /\ result.kind = "returned") =>
        Len(result.value.v) <= args.count

\* the heads of the three fallback templates, in their order
Templates == <<POST_1_HEAD, POST_2_HEAD, POST_3_HEAD>>

StartsWith(s, prefix) ==
    Len(s) >= Len(prefix) /\ SubSeq(s, 1, Len(prefix)) = prefix

\* C11: on provider failure generate_survey_posts returns exactly
\* min(count, 3) posts for every non-negative count: the first min(count, 3)
\* of the three fixed templates, in their fixed order.
C11_FallbackPostCount ==
    (op = "generate_survey_posts" /\ ProviderCallFailed /\ args.count >= 0) =>
        /\ result.kind = "returned"
        /\ result.value.type = "list"
        /\ Len(result.value.v) =
              (IF args.count < Len(Templates) THEN args.count ELSE Len(Templates))
        /\ \A i \in 1..Len(result.value.v) :
              /\ StartsWith(result.value.v[i].v.text, Templates[i])
              /\ result.value.v[i] = fallback_posts(args.idea_context.v)[i]

C11_Witness ==
    /\ op = "generate_survey_posts"
    /\ ProviderCallFailed
    /\ args.count = 5
    /\ IsPlatform(args.platform, PLATFORM_X)
    /\ Len(args.idea_context.v) > PreviewCut
    /\ Len(result.value.v) = 3

\* the positions of the messages sent that are a synthetic idea-context turn
ContextTurns ==
    { i \in 1..Len(sent) :
        sent[i].role = "user" /\ StartsWith(sent[i].content, I_HAVE_AN_IDEA) }

\* C12: the idea context is injected as a synthetic leading user turn, right
\* after the system message, if and only if an idea context is supplied (a
\* non-empty string) and the history is empty or absent; with a non-empty
\* history the idea context is never added.
C12_ContextOnlyWithoutHistory ==
    op = "tiki_taka_conversation" =>
        LET supplied == args.idea_context.type = "str"
                        /\ Len(args.idea_context.v) > 0
            no_history == \/ args.conversation_history.type = "NoneType"
                          \/ Len(args.conversation_history.v) = 0
        IN  IF supplied /\ no_history
            THEN /\ ContextTurns = {2}
                 /\ sent[2].content = I_HAVE_AN_IDEA \o args.idea_context.v
            ELSE ContextTurns = {}

C12_Witness ==
    /\ op = "tiki_taka_conversation"
    /\ args.idea_context.type = "str"
    /\ Len(args.idea_context.v) > 0
    /\ args.conversation_history.type = "list"
    /\ Len(args.conversation_history.v) = 0
    /\ ContextTurns = {2}

\* C13: on provider failure the advisor reply is the one fixed clarifying
\* question, whatever the caller's text, history and idea context: every
\* failing call returns the same string.
C13_FixedFallbackReply ==
    (op = "tiki_taka_conversation" /\ ProviderCallFailed) =>
        /\ result.kind = "returned"
        /\ result.value.type = "str"
        /\ result.value.v = FALLBACK_REPLY

C13_Witness ==
    /\ op = "tiki_taka_conversation"
    /\ ProviderCallFailed
    /\ Len(args.transcribed_text) > 0
    /\ args.conversation_history.type = "list"
    /\ Len(args.conversation_history.v) = MaxHist
    /\ args.idea_context.type = "str"
    /\ Len(args.idea_context.v) > 0
    /\ result.value.v = FALLBACK_REPLY

\* C14 as stated: on provider failure analyze_idea returns one fixed object,
\* every free-text field included, so failing calls on different idea texts
\* return equal objects: each returns what a failing call on the empty text
\* returns.
C14_FallbackIsOneLiteral ==
    (op = "analyze_idea" /\ ProviderCallFailed) =>
        result.value = _get_fallback_analysis(<<>>)

\* C14 amended: on provider failure problem_statement, strengths, weaknesses,
\* opportunities and threats hold fixed placeholder text, and summary is
\* "Analysis for: ", the first 200 characters of the idea text, "...".
C14_FallbackFixedButSummary ==
    (op = "analyze_idea" /\ ProviderCallFailed) =>
        LET t == args.transcribed_text
            kept == IF Len(t) < SummaryCut THEN Len(t) ELSE SummaryCut
        IN  /\ result.kind = "returned"
            /\ result.value.type = "ExtendedIdeaAnalysis"
            /\ result.value.v.problem_statement = FALLBACK_PROBLEM_STATEMENT
            /\ result.value.v.strengths = UNAVAILABLE
            /\ result.value.v.weaknesses = UNAVAILABLE
            /\ result.value.v.opportunities = UNAVAILABLE
            /\ result.value.v.threats = UNAVAILABLE
            /\ result.value.v.summary =
                  SUMMARY_PREFIX \o SubSeq(t, 1, kept) \o ELLIPSIS

C14_Witness ==
    /\ op = "analyze_idea"
    /\ ProviderCallFailed
    /\ Len(args.transcribed_text) > SummaryCut
    /\ Len(result.value.v.summary) = Len(SUMMARY_PREFIX) + SummaryCut + Len(ELLIPSIS)
    /\ result.value.v.strengths = UNAVAILABLE

C17_FailedTokenIsRejected ==
    op = "POST /projects/generate-details" =>
        /\ request.optional_user_id = Return(None) =>
              request.credentials.type = "NoneType"
        /\ (/\ request.credentials.type = "str"
            /\ supabase_get_user_id(request.credentials.v).kind = "raised") =>
              /\ request.optional_user_id = Raise(HTTP_401_UNAUTHORIZED)
              /\ http.status = HTTP_401_UNAUTHORIZED
              /\ requests = 0
              /\ result = NoResult

\* a token whose verification fails with something other than a ValueError
C17_Witness ==
    /\ op = "POST /projects/generate-details"
    /\ request.credentials.type = "str"
    /\ supabase_get_user_id(request.credentials.v) = Raise("Exception")
    /\ Len(args.transcribed_text) >= RequestTextMinLength
    /\ http.status = HTTP_401_UNAUTHORIZED

\* the decimal strings of the positions a list of survey posts can have
DecimalOfPosition ==
    << <<"1">>, <<"2">>, <<"3">>, <<"4">>, <<"5">>, <<"6">>, <<"7">>, <<"8">>,
       <<"9">>, <<"1","0">> >>

\* C18: in every list generate_survey_posts returns, on the success path and
\* on the fallback path, the element at position i (counting from 1) has the
\* decimal string of i as its id.
C18_IdsArePositions ==
    (op = "generate_survey_posts" /\ result.kind = "returned") =>
        /\ result.value.type = "list"
        /\ Len(result.value.v) <= Len(DecimalOfPosition)
        /\ \A i \in 1..Len(result.value.v) :
              result.value.v[i].v.id = DecimalOfPosition[i]

\* the provider's ten posts come back numbered "1" to "10"
C18_Witness ==
    /\ op = "generate_survey_posts"
    /\ ~ProviderCallFailed
    /\ provider.kind = "object"
    /\ Len(result.value.v) = PostsMaxLength
    /\ result.value.v[PostsMaxLength].v.id = <<"1","0">>

SuppliedTurns ==
    IF args.conversation_history.type = "list" THEN args.conversation_history.v ELSE <<>>

\* how many messages precede the history in the messages sent
Preamble == 1 + Cardinality(ContextTurns)

IsDict(entry) == entry.type = "dict"

\* C22 as stated: the messages sent for a conversation are the system
\* instruction, the idea-context turn if injected, every entry of the
\* supplied history in its order with its role and content, and the current
\* user text last: no entry is dropped, reordered or given another role.
C22_EveryTurnIsSent ==
    op = "tiki_taka_conversation" =>
        /\ Len(sent) = Preamble + Len(SuppliedTurns) + 1
        /\ sent[1] = [role |-> "system", content |-> system_prompt]
        /\ sent[Len(sent)] = [role |-> "user", content |-> args.transcribed_text]
        /\ \A i \in 1..Len(SuppliedTurns) :
              /\ IsDict(SuppliedTurns[i])
              /\ "role" \in DOMAIN SuppliedTurns[i].v
              /\ sent[Preamble + i].role = SuppliedTurns[i].v.role
              /\ sent[Preamble + i].content = SuppliedTurns[i].v.content

\* C22 amended: the messages sent are the system instruction, the
\* idea-context turn if injected, the entries of the supplied history that
\* are dicts, in their order, each with its role ("user" when it has none)
\* and its content, and the current user text last; entries that are not
\* dicts are left out.
C22_DictTurnsAreSent ==
    op = "tiki_taka_conversation" =>
        LET turns == SelectSeq(SuppliedTurns, IsDict)
        IN  /\ Len(sent) = Preamble + Len(turns) + 1
            /\ sent[1] = [role |-> "system", content |-> system_prompt]
            /\ sent[Len(sent)] = [role |-> "user", content |-> args.transcribed_text]
            /\ \A i \in 1..Len(turns) :
                  /\ sent[Preamble + i].role =
                        (IF "role" \in DOMAIN turns[i].v THEN turns[i].v.role ELSE "user")
                  /\ sent[Preamble + i].content = turns[i].v.content

\* two turns of different roles around an entry that is not a dict
C22_Witness ==
    /\ op = "tiki_taka_conversation"
    /\ Len(SuppliedTurns) = 2
    /\ IsDict(SuppliedTurns[1])
    /\ ~IsDict(SuppliedTurns[2])
    /\ Len(sent) = 3
    /\ sent[2].role = "assistant"

-----------------------------------------------------------------------------
(* Properties of the routes, checked under SpecRoutes *)

Anonymous(client) == credentials_of(client).type = "NoneType"

\* the ids of the rows the last answer carries
ReturnedIds ==
    CASE http.body.type = "list" ->
            {http.body.v[i].v.id : i \in 1..Len(http.body.v)}
      [] http.body.type \in {"IdeaResponse", "ProjectResponse"} -> {http.body.v.id}
      [] OTHER -> {}

IdeaReads == {"GET /ideas/{idea_id}", "GET /ideas", "PATCH /ideas/{idea_id}"}
ProjectReads == {"GET /projects/{project_id}", "GET /projects"}

\* C7: an idea or project row created by one anonymous caller is never
\* returned by get_idea, list_ideas, update_idea, get_project or list_projects
\* to a different anonymous caller.
C7_AnonymousRowsArePrivate ==
    Anonymous(request.client) =>
        /\ op \in IdeaReads =>
              \A id \in ReturnedIds :
                  Anonymous(ideas[id].created_by) => ideas[id].created_by = request.client
        /\ op \in ProjectReads =>
              \A id \in ReturnedIds :
                  Anonymous(projects[id].created_by) =>
                      projects[id].created_by = request.client

\* the user_id of every row the last answer carries
ReturnedOwners ==
    CASE http.body.type = "list" ->
            {http.body.v[i].v.user_id : i \in 1..Len(http.body.v)}
      [] http.body.type \in {"IdeaResponse", "ProjectResponse"} -> {http.body.v.user_id}
      [] OTHER -> {}

\* the rows of a table with the id asked for that the caller owns
OwnRows(table, id) ==
    {i \in 1..Len(table) :
        table[i].id = id /\ table[i].user_id = ResolvedUser(request.credentials)}

\* C16: every read or update of an idea or project is filtered by ownership:
\* get_idea, update_idea and get_project return a row only if its user_id is
\* the caller's resolved user id and answer 404 otherwise; list_ideas and
\* list_projects return only rows whose user_id is the caller's resolved
\* user id.
C16_OwnershipFilter ==
    (op \in IdeaReads \cup ProjectReads /\ ~Rejected(request.credentials)) =>
        /\ ReturnedOwners \subseteq {ResolvedUser(request.credentials)}
        /\ (op \in {"GET /ideas/{idea_id}", "PATCH /ideas/{idea_id}"}
            /\ OwnRows(ideas, request.idea_id) = {}) =>
              http.status = HTTP_404_NOT_FOUND
        /\ (op = "GET /projects/{project_id}"
            /\ OwnRows(projects, request.project_id.v) = {}) =>
              http.status = HTTP_404_NOT_FOUND

\* a caller asks for an idea that exists and belongs to somebody else
C16_Witness ==
    /\ op = "GET /ideas/{idea_id}"
    /\ ~Rejected(request.credentials)
    /\ request.idea_id \in 1..Len(ideas)
    /\ ideas[request.idea_id].user_id # ResolvedUser(request.credentials)
    /\ http.status = HTTP_404_NOT_FOUND

\* whether a project with this id belongs to this user
OwnsProject(user_id, project_id) ==
    \E i \in 1..Len(projects) :
        projects[i].id = project_id /\ projects[i].user_id = user_id

\* C23: in the analyze route a supplied project_id that does not identify a
\* project owned by the caller is answered 404 before any provider request
\* is made, and every idea row has a project_id that is absent or identifies
\* a project of the idea's own user_id.
C23_UnownedProjectIs404 ==
    /\ (/\ op = "POST /ideas/analyze"
        /\ ~Rejected(request.credentials)
        /\ request.project_id.type = "int"
        /\ ~OwnsProject(ResolvedUser(request.credentials), request.project_id.v)) =>
          /\ http.status = HTTP_404_NOT_FOUND
          /\ requests = 0
    /\ \A i \in 1..Len(ideas) :
          \/ ideas[i].project_id.type = "NoneType"
          \/ OwnsProject(ideas[i].user_id, ideas[i].project_id.v)

\* the same with the project ids Python counts as false left aside
TruthyUnownedProjectIs404 ==
    /\ (/\ op = "POST /ideas/analyze"
        /\ ~Rejected(request.credentials)
        /\ Truthy(request.project_id)
        /\ ~OwnsProject(ResolvedUser(request.credentials), request.project_id.v)) =>
          /\ http.status = HTTP_404_NOT_FOUND
          /\ requests = 0
    /\ \A i \in 1..Len(ideas) :
          \/ ~Truthy(ideas[i].project_id)
          \/ OwnsProject(ideas[i].user_id, ideas[i].project_id.v)

\* what update_idea may do to the tables in one step
UpdateIdeaFrame ==
    op' = "PATCH /ideas/{idea_id}" =>
        /\ projects' = projects
        /\ Len(ideas') = Len(ideas)
        /\ \A i \in 1..Len(ideas) :
              /\ ideas'[i].id = ideas[i].id
              /\ ideas'[i].user_id = ideas[i].user_id
              /\ ideas'[i].transcribed_text = ideas[i].transcribed_text
              /\ ideas'[i].analysis_json = ideas[i].analysis_json
              /\ i # request'.idea_id => ideas'[i] = ideas[i]
        /\ request'.project_id.type = "NoneType" => ideas' = ideas
        /\ (/\ ~Rejected(request'.credentials)
            /\ request'.project_id.type = "int"
            /\ ~OwnsProject(ResolvedUser(request'.credentials), request'.project_id.v)) =>
              /\ http'.status = HTTP_404_NOT_FOUND
              /\ ideas' = ideas

\* C24: update_idea changes nothing but the idea's project association: a
\* supplied project_id the caller does not own is answered 404 and leaves
\* the idea's project_id as it was, an omitted project_id leaves it as it
\* was, and user_id, transcribed_text and analysis of every idea stay as
\* they were in every case.
C24_UpdateChangesProjectOnly == [][UpdateIdeaFrame]_vars

\* the caller's own idea, not attached to a project, was asked onto a project
\* the caller does not own
C24_Witness ==
    /\ op = "PATCH /ideas/{idea_id}"
    /\ request.idea_id \in 1..Len(ideas)
    /\ ideas[request.idea_id].user_id = ResolvedUser(request.credentials)
    /\ request.project_id.type = "int"
    /\ ~OwnsProject(ResolvedUser(request.credentials), request.project_id.v)
    /\ Len(projects) > 0
    /\ http.status = HTTP_404_NOT_FOUND
    /\ ideas[request.idea_id].project_id.type = "NoneType"

-----------------------------------------------------------------------------
(* Properties of concurrent calls, checked under SpecConcurrent *)

-----------------------------------------------------------------------------
(* Properties of the download script, checked under SpecDownload *)

\* without force, nothing the assets directory held before the run is gone
NothingDeletedWithoutForce ==
    ~download.force => download.before \subseteq download.assets_dir

\* C25: in download_models without force the contents of a non-empty assets
\* directory are never deleted, and when the user answers "y" to the
\* overwrite prompt the run goes on to clone the repository: it does not
\* return before cloning.
C25_YesContinuesToClone ==
    /\ NothingDeletedWithoutForce
    /\ (/\ download.pc = "returned"
        /\ ~download.force
        /\ download.before # {}
        /\ lower(download.response) = "y") =>
          download.cloned

====
